---- MODULE Spec2Model ----
(***************************************************************************)
(* gitNote (src/gitNote.py): the JSON note index kept by NoteDB, the note  *)
(* files written by the inline/new commands, and the build cycle that runs *)
(* inside the Git context manager.                                         *)
(*                                                                         *)
(* Python's None is the empty tuple and a present value v is <<v>>, so     *)
(* that "absent" and "empty" stay different values (tags None vs tags []). *)
(***************************************************************************)
EXTENDS Integers, Sequences, FiniteSets, TLC

VARIABLES
  file,     \* ROOT/data.json: None (no such file) or Some(index document)
  data,     \* NoteDB.data of the live NoteDB object: None before NoteDB()
  lastOp,   \* how the last library call or command ended
  fs,       \* the note files under ROOT: path -> None or Some(text)
  pc,       \* position of the build command inside "with Git() as g"
  log,      \* git and index-write requests issued in the current build cycle
  reported, \* the paths "git diff --name-only HEAD" printed
  changed,  \* Git._changed_files(): the relevant changes
  pending,  \* what the generator Git.__iter__ has not yielded yet
  exc,      \* the exception raised inside the with block
  raised,   \* the exception build() let through to its caller
  fileAtEnter \* data.json as it was when the cycle started

storeVars == <<file, data>>
cliVars == <<fs, pc, log, reported, changed, pending, exc, raised, fileAtEnter>>
vars == <<file, data, lastOp, fs, pc, log, reported, changed, pending, exc,
          raised, fileAtEnter>>

None == <<>>
Some(v) == <<v>>
Val(o) == o[1]

\* ---------------------------------------------------------------- inputs

\* Largest id a caller passes as Note(..., nid=k).
MaxSuppliedId == 1

Titles == {"X", "Y", "Z"}

\* nid arguments: absent, the falsy 0, and 1..MaxSuppliedId.
SuppliedIds == {None} \cup {Some(k) : k \in 0..MaxSuppliedId}

Date1 == "01-01-2024 10:00:00"
Date2 == "02-01-2024 10:00:00"

\* (content, tags, date) arguments of Note(...): no body and the default
\* tags=[], a body with one tag, another body with tags None, an empty body.
NoteArgs ==
  { [content |-> None,      tags |-> Some(<<>>),     date |-> Date1],
    [content |-> Some("x"), tags |-> Some(<<"t">>),  date |-> Date1],
    [content |-> Some("y"), tags |-> None,           date |-> Date2],
    [content |-> Some(""),  tags |-> None,           date |-> Date1] }

Authors == {"Alice"}
BlogTitles == {"Blog"}

\* ------------------------------------------------------------------ Note

\* markdown2.markdown on a one-paragraph body.
markdown(text) == "<p>" \o text \o "</p>\n"

\* Note.md_to_html: renders, or exits when content_raw is empty.
md_to_html(content_raw, text) ==
  IF content_raw # ""
    THEN [raised |-> "none", html |-> markdown(text)]
    ELSE [raised |-> "SystemExit", html |-> ""]

\* Note.__init__(title, content, tags, nid, date).
Note(title, content, tags, nid, date) ==
  LET content_raw == IF content # None THEN Val(content) ELSE ""
      r == IF content = None
             THEN [raised |-> "none", html |-> ""]
             ELSE md_to_html(content_raw, Val(content))
  IN [raised |-> r.raised,
      note |-> [title |-> title, content_raw |-> content_raw,
                content |-> r.html, id |-> nid, tags |-> tags,
                date_created |-> date]]

\* ---------------------------------------------------------------- NoteDB

Max(S) == CHOOSE m \in S : \A k \in S : k <= m

\* Python truthiness of note.id: None and 0 are falsy.
Falsy(id) == id = None \/ id = Some(0)

\* A _write_data that dumps the document with the count it was read with.
_write_data_stale(d) == d

\* NoteDB._write_data up to the dump: count is recomputed from notes.
_write_data(d) == [d EXCEPT !.count = Len(d.notes)]

\* NoteDB._new_id over self.data = d.
_new_id(d, note) ==
  IF Falsy(note.id)
    THEN LET ids == { Val(d.notes[i].id) :
                        i \in { j \in DOMAIN d.notes : d.notes[j].id # None } }
         IN IF ids = {}
              THEN [raised |-> "ValueError", id |-> None]
              ELSE [raised |-> "none", id |-> Some(Max(ids) + 1)]
    ELSE [raised |-> "none", id |-> note.id]

\* A _note_to_dict that ignores the id it is told to keep.
_note_to_dict_fresh(d, note, nid) ==
  LET r == _new_id(d, note)
  IN [raised |-> r.raised,
      rec |-> [id |-> r.id, title |-> note.title, content |-> note.content,
               tags |-> note.tags, date_created |-> note.date_created]]

\* NoteDB._note_to_dict(note, nid).
_note_to_dict(d, note, nid) ==
  LET r == IF nid = None THEN _new_id(d, note)
                         ELSE [raised |-> "none", id |-> nid]
  IN [raised |-> r.raised,
      rec |-> [id |-> r.id, title |-> note.title, content |-> note.content,
               tags |-> note.tags, date_created |-> note.date_created]]

TitlesOf(d) == { d.notes[i].title : i \in DOMAIN d.notes }

\* The else branch of NoteDB.post: the loop over enumerate(self.data['notes'])
\* from index i on; every record with the note's title is replaced and the
\* document written.
RECURSIVE post_loop(_, _, _, _)
post_loop(d, f, note, i) ==
  IF i > Len(d.notes)
    THEN [data |-> d, file |-> f, raised |-> "none"]
    ELSE IF note.title = d.notes[i].title
      THEN LET r == _note_to_dict(d, note, d.notes[i].id)
           IN IF r.raised # "none"
                THEN [data |-> d, file |-> f, raised |-> r.raised]
                ELSE LET d2 == _write_data([d EXCEPT !.notes[i] = r.rec])
                     IN post_loop(d2, Some(d2), note, i + 1)
      ELSE post_loop(d, f, note, i + 1)

\* The if branch of NoteDB.post: a new title is appended and written.
post_append(d, f, note) ==
  LET r == _note_to_dict(d, note, None)
  IN IF r.raised # "none"
       THEN [data |-> d, file |-> f, raised |-> r.raised]
       ELSE LET d2 == _write_data([d EXCEPT !.notes = Append(@, r.rec)])
            IN [data |-> d2, file |-> Some(d2), raised |-> "none"]

\* A post that appends without looking for the title.
post_always_append(d, f, note) == post_append(d, f, note)

\* NoteDB.post(note) on self.data = d with data.json = f.
post(d, f, note) ==
  IF note.title \notin TitlesOf(d)
    THEN post_append(d, f, note)
    ELSE post_loop(d, f, note, 1)

\* NoteDB._get_db: load data.json, or create and write it on first use.
_get_db(f, author, blog_title) ==
  IF f # None
    THEN [data |-> Val(f), file |-> f, op |-> "loaded"]
    ELSE LET content == _write_data([BlogTitle |-> blog_title,
                                     Author |-> author, count |-> 0,
                                     notes |-> <<>>, pages |-> <<>>])
         IN [data |-> content, file |-> Some(content), op |-> "created"]

\* ---------------------------------------------------------------- strings

At(s, i) == SubSeq(s, i, i)

\* Whether pat occurs in s at index i.
Matches(s, pat, i) == i >= 1 /\ i + Len(pat) - 1 <= Len(s)
                      /\ SubSeq(s, i, i + Len(pat) - 1) = pat

\* Index of the first newline of s at or after i; Len(s) + 1 when none.
RECURSIVE LineEnd(_, _)
LineEnd(s, i) ==
  IF i > Len(s) THEN Len(s) + 1
  ELSE IF At(s, i) = "\n" THEN i ELSE LineEnd(s, i + 1)

\* string.whitespace, the characters str.strip() removes: space, \t, \n, \r,
\* \f and \x0b.  The vertical tab has no escape in a string literal, so the
\* last member holds the character itself (byte 0x0B).
Whitespace == {" ", "\n", "\t", "\r", "\f", ""}

\* str.strip()
RECURSIVE lstrip(_)
lstrip(s) == IF s # "" /\ At(s, 1) \in Whitespace THEN lstrip(Tail(s)) ELSE s
RECURSIVE rstrip(_)
rstrip(s) ==
  IF s # "" /\ At(s, Len(s)) \in Whitespace
    THEN rstrip(SubSeq(s, 1, Len(s) - 1)) ELSE s
strip(s) == rstrip(lstrip(s))

\* str.split(','): the fields between commas, from index i with field start b.
RECURSIVE split_from(_, _, _)
split_from(s, b, i) ==
  IF i > Len(s) THEN <<SubSeq(s, b, Len(s))>>
  ELSE IF At(s, i) = ","
    THEN <<SubSeq(s, b, i - 1)>> \o split_from(s, i + 1, i + 1)
    ELSE split_from(s, b, i + 1)
split(s) == split_from(s, 1, 1)

\* ",".join(x) for a string x: its characters joined by commas.
RECURSIVE join_chars(_)
join_chars(x) ==
  IF Len(x) <= 1 THEN x ELSE At(x, 1) \o "," \o join_chars(Tail(x))

UpperCase == "ABCDEFGHIJKLMNOPQRSTUVWXYZ"
LowerCase == "abcdefghijklmnopqrstuvwxyz"
Digits == "0123456789"

Occurs(c, s) == \E i \in 1..Len(s) : At(s, i) = c

\* str.lower() of one character.
lower(c) ==
  IF Occurs(c, UpperCase)
    THEN At(LowerCase, CHOOSE i \in 1..Len(UpperCase) : At(UpperCase, i) = c)
    ELSE c

\* slugify(title) on ASCII text: lower-cased, every run of characters outside
\* [-a-z0-9] and every run of dashes becomes one dash, dashes stripped from
\* both ends.  acc is the slug so far, without a trailing dash; dash tells
\* that a separator is owed before the next kept character.
RECURSIVE slug_from(_, _, _, _)
slug_from(s, i, acc, dash) ==
  IF i > Len(s) THEN acc
  ELSE LET c == lower(At(s, i))
       IN IF Occurs(c, LowerCase) \/ Occurs(c, Digits)
            THEN slug_from(s, i + 1,
                           (IF dash /\ acc # "" THEN acc \o "-" ELSE acc) \o c,
                           FALSE)
            ELSE slug_from(s, i + 1, acc, TRUE)
slugify(title) == slug_from(title, 1, "", FALSE)

\* ------------------------------------------------------- the note files

\* text.split('\n'): the lines of s from index i, the current line starting
\* at b.
RECURSIVE lines_from(_, _, _)
lines_from(s, b, i) ==
  IF i > Len(s) THEN <<SubSeq(s, b, Len(s))>>
  ELSE IF At(s, i) = "\n"
    THEN <<SubSeq(s, b, i - 1)>> \o lines_from(s, i + 1, i + 1)
    ELSE lines_from(s, b, i + 1)

\* '\n'.join(lines)
RECURSIVE join_lines(_)
join_lines(lines) ==
  IF Len(lines) = 0 THEN ""
  ELSE IF Len(lines) = 1 THEN lines[1]
  ELSE lines[1] \o "\n" \o join_lines(Tail(lines))

Blank == {" ", "\t"}

\* The leading run of spaces and tabs of a line: '(^[ \t]*)'.
RECURSIVE indent_of(_)
indent_of(line) ==
  IF line # "" /\ At(line, 1) \in Blank
    THEN At(line, 1) \o indent_of(Tail(line)) ELSE ""

\* The longest common prefix of two indents.
RECURSIVE common_prefix(_, _)
common_prefix(a, b) ==
  IF a # "" /\ b # "" /\ At(a, 1) = At(b, 1)
    THEN At(a, 1) \o common_prefix(Tail(a), Tail(b)) ELSE ""

\* The margin loop of textwrap.dedent over the indents of the lines from i
\* on; m is None before the first indent.
RECURSIVE margin_from(_, _, _)
margin_from(lines, i, m) ==
  IF i > Len(lines) THEN m
  ELSE IF lines[i] = "" THEN margin_from(lines, i + 1, m)
  ELSE LET ind == indent_of(lines[i])
       IN margin_from(lines, i + 1,
                      IF m = None THEN Some(ind)
                      ELSE Some(common_prefix(Val(m), ind)))

\* textwrap.dedent(text): lines of spaces and tabs only are emptied, then the
\* margin common to the other lines is taken off every line that starts with
\* it.
dedent(text) ==
  LET raw == lines_from(text, 1, 1)
      lines == [i \in DOMAIN raw |->
                  IF indent_of(raw[i]) = raw[i] THEN "" ELSE raw[i]]
      m == margin_from(lines, 1, None)
      margin == IF m = None THEN "" ELSE Val(m)
  IN join_lines([i \in DOMAIN lines |->
                   IF margin # "" /\ Matches(lines[i], margin, 1)
                     THEN SubSeq(lines[i], Len(margin) + 1, Len(lines[i]))
                     ELSE lines[i]])

\* Note.__str__ with tags given as the --tags string: the indented template,
\* formatted and then dedented.
__str__(note) ==
  dedent("        #" \o note.title \o "\n        " \o note.content_raw
         \o "\n        Posted on " \o note.date_created \o "\n        Tags: "
         \o (IF note.tags = None THEN "" ELSE join_chars(Val(note.tags)))
         \o "\n        ")

\* The text CLIParse.new formats; str.format prints tags None as "None".
new_text(title, tags, date) ==
  "#" \o title \o "\n\nCreated on " \o date \o "\nTags:"
      \o (IF tags = None THEN "None" ELSE Val(tags))

\* The path, below ROOT, that CLIParse._save_note builds for a title.
save_path(title) == "notes/" \o slugify(title) \o ".md"

\* CLIParse._save_note(contents, title) on the files f, the operator
\* answering choice when asked.
_save_note(f, contents, title, choice) ==
  LET filename == save_path(title)
  IN IF f[filename] # None /\ choice = "yes"
       THEN [f EXCEPT ![filename] = Some(contents)]
       ELSE f

\* parse_md on the text s: each findall(...)[0], IndexError when a pattern
\* has no match.
\* '#(.+)\n': the first '#' followed by at least one character before the
\* newline that ends its line.
RECURSIVE title_from(_, _)
title_from(s, i) ==
  IF i > Len(s) THEN None
  ELSE LET e == LineEnd(s, i + 1)
       IN IF At(s, i) = "#" /\ e <= Len(s) /\ e > i + 1
            THEN Some(SubSeq(s, i + 1, e - 1))
            ELSE title_from(s, i + 1)

\* 'Tags:(.+)' and 'Posted on (.+)': the first occurrence of the marker with
\* at least one character after it on its line; the rest of that line.
RECURSIVE rest_of_line_after(_, _, _)
rest_of_line_after(s, marker, i) ==
  IF i > Len(s) THEN None
  ELSE LET b == i + Len(marker)
           e == LineEnd(s, b)
       IN IF Matches(s, marker, i) /\ e > b
            THEN Some(SubSeq(s, b, e - 1))
            ELSE rest_of_line_after(s, marker, i + 1)

\* '\n([^#].*)Posted on' with re.S: the first newline followed by a character
\* other than '#' that has a "Posted on" starting after that character; the
\* capture runs to the last "Posted on" of the text.
body_span(s) ==
  LET starts == { p \in 1..Len(s) :
                    /\ At(s, p) = "\n"
                    /\ p + 1 <= Len(s)
                    /\ At(s, p + 1) # "#"
                    /\ \E q \in (p + 2)..Len(s) : Matches(s, "Posted on", q) }
  IN IF starts = {} THEN None
     ELSE LET p == CHOOSE x \in starts : \A y \in starts : x <= y
              qs == { q \in (p + 2)..Len(s) : Matches(s, "Posted on", q) }
          IN Some(SubSeq(s, p + 1, Max(qs) - 1))

parse_md(s) ==
  LET title == title_from(s, 1)
      tagsm == rest_of_line_after(s, "Tags:", 1)
      datem == rest_of_line_after(s, "Posted on ", 1)
      bodym == body_span(s)
  IN IF title = None \/ tagsm = None \/ datem = None \/ bodym = None
       THEN [raised |-> "IndexError", title |-> "", body |-> "", date |-> "",
             tags |-> None]
       ELSE LET tags == split(strip(Val(tagsm)))
            IN [raised |-> "none", title |-> Val(title),
                body |-> strip(Val(bodym)), date |-> strip(Val(datem)),
                tags |-> IF tags # <<"">> THEN Some(tags) ELSE None]

\* ------------------------------------------------------------ CLI inputs

\* Longest list of paths one "git diff --name-only HEAD" prints.
MaxReported == 2

\* --title, --body and --tags arguments; None when the option is not given.
CliTitles == {"A", "a", "A b"}
TitleArgs == {None} \cup {Some(t) : t \in CliTitles}
BodyArgs == {None, Some(""), Some("x"), Some(" "), Some("x\ny")}
TagArgs == {None, Some("t,u")}

\* The default date of Note.__init__ is taken once, when the class is defined.
StartDate == Date1
\* CLIParse._get_date() at the time of the call.
Clock == {Date1, Date2}

Choices == {"yes", "no"}

NotePaths == {save_path(t) : t \in CliTitles}

\* What the operator saves from the editor: two notes titled X with different
\* bodies, and a text that is no note.
EditorTexts ==
  { "#X\n\nfirst\nPosted on 01-01-2024 10:00:00\nTags:a,b",
    "#X\n\nsecond\nPosted on 01-01-2024 10:00:00\nTags:a,b",
    "draft" }

ReportablePaths == NotePaths \cup {"data.json"}

RECURSIVE SeqsUpTo(_, _)
SeqsUpTo(S, n) ==
  IF n = 0 THEN {<<>>}
  ELSE LET shorter == SeqsUpTo(S, n - 1)
       IN shorter \cup { Append(q, p) : q \in shorter, p \in S }

Range(q) == { q[i] : i \in DOMAIN q }

\* git prints every changed path once.
Reports == { q \in SeqsUpTo(ReportablePaths, MaxReported) :
               Cardinality(Range(q)) = Len(q) }

\* -------------------------------------------------------------------- Git

\* os.path.isfile(ROOT + p)
isfile(f, idx, p) ==
  IF p = "data.json" THEN idx # None ELSE p \in DOMAIN f /\ f[p] # None

\* f[-3:] == '.md'
ends_md(p) == Len(p) >= 3 /\ SubSeq(p, Len(p) - 2, Len(p)) = ".md"

\* The filter of Git._changed_files over the lines git diff printed.
relevant(f, idx, p) == ends_md(p) /\ isfile(f, idx, p)
_changed_files(f, idx, changed_files) ==
  SelectSeq(changed_files, LAMBDA p : relevant(f, idx, p))

\* Git.__enter__: the three git add requests.
__enter__ == <<"git add notes/", "git add data.json", "git add images/">>

\* An __exit__ that commits only when the block ended without an exception.
exit_commit_on_success(l, e) ==
  IF e = "none" THEN [log |-> Append(l, "git commit"), raised |-> e]
                ELSE [log |-> l, raised |-> e]

\* Git.__exit__(exc_type, ...): the commit request is issued whatever
\* happened, and the None it returns lets the exception through.
__exit__(l, e) == [log |-> Append(l, "git commit"), raised |-> e]

\* ------------------------------------------------------------- actions

Init ==
  /\ file = None
  /\ data = None
  /\ lastOp = "none"
  /\ fs = [p \in NotePaths |-> None]
  /\ pc = "idle"
  /\ log = <<>>
  /\ reported = <<>>
  /\ changed = <<>>
  /\ pending = <<>>
  /\ exc = "none"
  /\ raised = "none"
  /\ fileAtEnter = None

\* ndb = NoteDB()
NewNoteDB(author, blog_title) ==
  /\ pc = "idle"
  /\ LET r == _get_db(file, author, blog_title)
     IN /\ data' = Some(r.data)
        /\ file' = r.file
        /\ lastOp' = r.op
  /\ UNCHANGED cliVars

\* ndb.post(Note(title, content, tags, nid, date)) on the live NoteDB.
Post(title, a, nid) ==
  /\ pc = "idle"
  /\ data # None
  /\ LET n == Note(title, a.content, a.tags, nid, a.date)
     IN IF n.raised # "none"
          THEN /\ lastOp' = n.raised
               /\ UNCHANGED storeVars
          ELSE LET existed == title \in TitlesOf(Val(data))
                   r == post(Val(data), file, n.note)
               IN /\ data' = Some(r.data)
                  /\ file' = r.file
                  /\ lastOp' = IF r.raised # "none" THEN r.raised
                               ELSE IF existed THEN "replaced" ELSE "appended"
  /\ UNCHANGED cliVars

\* gitnote inline -t title -b body -g tags
Inline(title, body, tags, now, choice) ==
  /\ pc = "idle"
  /\ IF title = None \/ body = None
       THEN lastOp' = "SystemExit" /\ fs' = fs
       ELSE LET n == Note(Val(title), body, tags, Some(now), StartDate)
            IN IF n.raised # "none"
                 THEN lastOp' = n.raised /\ fs' = fs
                 ELSE /\ fs' = _save_note(fs, __str__(n.note), Val(title), choice)
                      /\ lastOp' = "inline"
  /\ UNCHANGED <<file, data, pc, log, reported, changed, pending, exc, raised,
                 fileAtEnter>>

\* gitnote new -t title -g tags, up to the launch of the editor
New(title, tags, now, choice) ==
  /\ pc = "idle"
  /\ IF title = None
       THEN lastOp' = "SystemExit" /\ fs' = fs
       ELSE /\ fs' = _save_note(fs, new_text(Val(title), tags, now),
                                Val(title), choice)
            /\ lastOp' = "new"
  /\ UNCHANGED <<file, data, pc, log, reported, changed, pending, exc, raised,
                 fileAtEnter>>

\* The operator saves a text from the editor that xdg-open launched.
Editor(p, text) ==
  /\ pc = "idle"
  /\ fs' = [fs EXCEPT ![p] = Some(text)]
  /\ lastOp' = "edited"
  /\ UNCHANGED <<file, data, pc, log, reported, changed, pending, exc, raised,
                 fileAtEnter>>

\* gitnote build: "with Git() as g" runs Git.__enter__
BuildEnter ==
  /\ pc = "idle"
  /\ pc' = "entered"
  /\ log' = __enter__
  /\ fileAtEnter' = file
  /\ lastOp' = "build"
  /\ UNCHANGED <<file, data, fs, reported, changed, pending, exc, raised>>

\* "for cf in g": the first next() runs Git._changed_files; git diff prints
\* changed_files, or fails and check_output raises.
BuildDiscover(changed_files, ok) ==
  /\ pc = "entered"
  /\ log' = Append(log, "git diff")
  /\ IF ok
       THEN /\ reported' = changed_files
            /\ changed' = _changed_files(fs, file, changed_files)
            /\ pending' = changed'
            /\ pc' = "iterating"
            /\ exc' = exc
       ELSE /\ exc' = "CalledProcessError"
            /\ pc' = "exiting"
            /\ UNCHANGED <<reported, changed, pending>>
  /\ UNCHANGED <<file, data, lastOp, fs, raised, fileAtEnter>>

\* The loop body for the next yielded cf: parse_md(filename) names a variable
\* that build never binds, so evaluating the argument raises NameError.
BuildBody ==
  /\ pc = "iterating"
  /\ pending # <<>>
  /\ pending' = Tail(pending)
  /\ exc' = "NameError"
  /\ pc' = "exiting"
  /\ UNCHANGED <<file, data, lastOp, fs, log, reported, changed, raised,
                 fileAtEnter>>

\* The generator is exhausted: the loop ends.
BuildLoopEnd ==
  /\ pc = "iterating"
  /\ pending = <<>>
  /\ pc' = "exiting"
  /\ UNCHANGED <<file, data, lastOp, fs, log, reported, changed, pending, exc,
                 raised, fileAtEnter>>

\* Leaving the with block runs Git.__exit__.
BuildExit ==
  /\ pc = "exiting"
  /\ LET r == __exit__(log, exc)
     IN log' = r.log /\ raised' = r.raised
  /\ pc' = "done"
  /\ UNCHANGED <<file, data, lastOp, fs, reported, changed, pending, exc,
                 fileAtEnter>>

\* The process of the build command ends.
BuildReturn ==
  /\ pc = "done"
  /\ pc' = "idle"
  /\ log' = <<>>
  /\ reported' = <<>>
  /\ changed' = <<>>
  /\ pending' = <<>>
  /\ exc' = "none"
  /\ raised' = "none"
  /\ fileAtEnter' = None
  /\ UNCHANGED <<file, data, lastOp, fs>>

Construct == \E au \in Authors, bt \in BlogTitles : NewNoteDB(au, bt)
PostAny == \E t \in Titles, a \in NoteArgs, nid \in SuppliedIds : Post(t, a, nid)
InlineAny ==
  \E t \in TitleArgs, b \in BodyArgs, g \in TagArgs, now \in Clock,
     ch \in Choices : Inline(t, b, g, now, ch)
NewAny ==
  \E t \in TitleArgs, g \in TagArgs, now \in Clock, ch \in Choices :
     New(t, g, now, ch)
EditorAny == \E p \in NotePaths, text \in EditorTexts : Editor(p, text)
DiscoverAny == \E q \in Reports, ok \in BOOLEAN : BuildDiscover(q, ok)

\* The NoteDB library calls.
NextStore == Construct \/ PostAny

\* The commands, the editor and first-use creation of the index.
NextCLI ==
  \/ Construct
  \/ InlineAny
  \/ NewAny
  \/ EditorAny
  \/ BuildEnter
  \/ DiscoverAny
  \/ BuildBody
  \/ BuildLoopEnd
  \/ BuildExit
  \/ BuildReturn

\* The whole program.  build never reaches NoteDB and the library calls never
\* touch the note files, so the two halves meet only in data.json and are
\* checked under SpecStore and SpecCLI.
Next == NextStore \/ NextCLI

SpecStore == Init /\ [][NextStore]_vars
SpecCLI == Init /\ [][NextCLI]_vars
Spec == Init /\ [][Next]_vars

\* ------------------------------------------------------------ properties

Pairs(d) == { q \in (DOMAIN d.notes) \X (DOMAIN d.notes) : q[1] # q[2] }

Docs == { Val(x) : x \in {file, data} \ {None} }

\* The record NoteDB._note_to_dict is to build for a note under a kept id.
RecordOf(note, id) ==
  [id |-> id, title |-> note.title, content |-> note.content,
   tags |-> note.tags, date_created |-> note.date_created]

ValidArgs == { a \in NoteArgs : a.content # Some("") }

\* C1: after any sequence of NoteDB.post calls from the empty index, no two
\* records of the index, in memory or in data.json, share a title.
C1_TitlesUnique ==
  \A d \in Docs : \A q \in Pairs(d) : d.notes[q[1]].title # d.notes[q[2]].title

\* A post has replaced a record of an index that holds several titles.
C1_Witness ==
  /\ lastOp = "replaced"
  /\ file # None
  /\ Len(Val(file).notes) = Cardinality(Titles)

IdsDistinctPositive(d) ==
  /\ \A i \in DOMAIN d.notes : d.notes[i].id # None /\ Val(d.notes[i].id) > 0
  /\ \A q \in Pairs(d) : d.notes[q[1]].id # d.notes[q[2]].id

\* C2: after every post, with notes that carry an id or not, the ids of the
\* index are pairwise distinct positive integers, and a record appended to a
\* non-empty index has the id max(ids before) + 1.
C2_IdsUniqueAndAssigned ==
  [][ /\ \A d \in { Val(x) : x \in {file', data'} \ {None} } :
           IdsDistinctPositive(d)
      /\ \A t \in Titles, a \in ValidArgs, nid \in SuppliedIds :
           ( /\ data # None
             /\ Val(data).notes # <<>>
             /\ t \notin TitlesOf(Val(data))
             /\ Post(t, a, nid)
             /\ lastOp' = "appended" )
           => LET d == Val(data)
                  d2 == Val(data')
              IN d2.notes[Len(d2.notes)].id =
                   Some(Max({ Val(d.notes[i].id) : i \in DOMAIN d.notes }) + 1)
    ]_vars

\* C3: an insert of a new title with no supplied id into an index whose ids
\* are 1..k in insertion order (the empty index for k = 0) succeeds and the
\* new record, appended last, gets the id k + 1; so N such inserts from the
\* empty index get the ids 1..N.
C3_IdsOneToN ==
  [][ \A t \in Titles, a \in ValidArgs :
        ( /\ data # None
          /\ t \notin TitlesOf(Val(data))
          /\ \A i \in DOMAIN Val(data).notes : Val(data).notes[i].id = Some(i)
          /\ Post(t, a, None) )
        => LET d == Val(data)
               d2 == Val(data')
           IN /\ lastOp' = "appended"
              /\ Len(d2.notes) = Len(d.notes) + 1
              /\ d2.notes[Len(d2.notes)].id = Some(Len(d.notes) + 1)
    ]_vars

\* C4: a post of a note whose title is in the index keeps the number of
\* records, keeps that record's id and position, sets its content, tags and
\* date to the note's, leaves the other records alone and writes the result;
\* and posting any note a second time leaves the index as the first post
\* left it.
C4_UpsertByTitle ==
  [][ \A t \in Titles, a \in ValidArgs, nid \in SuppliedIds :
        ( data # None /\ Post(t, a, nid) )
        => LET d == Val(data)
               d2 == Val(data')
               n == Note(t, a.content, a.tags, nid, a.date).note
           IN /\ t \in TitlesOf(d) =>
                   /\ Len(d2.notes) = Len(d.notes)
                   /\ \A i \in DOMAIN d.notes :
                        d2.notes[i] = IF d.notes[i].title = t
                                        THEN RecordOf(n, d.notes[i].id)
                                        ELSE d.notes[i]
                   /\ file' = Some(d2)
              /\ post(d2, file', n).data = d2
              /\ post(d2, file', n).file = file'
    ]_vars

\* A post has replaced the second record of the index by a note that carries
\* an id of its own, and the record kept the id it had.
C4_Witness ==
  /\ lastOp = "replaced"
  /\ data # None
  /\ Len(Val(data).notes) >= 2
  /\ Val(data).notes[2].content = markdown("y")
  /\ Val(data).notes[2].id = Some(Val(Val(data).notes[1].id) + 1)

\* C5: data.json, once created on first use, holds a count equal to the
\* number of its notes after every post.
C5_CountIsLength ==
  file # None => Val(file).count = Len(Val(file).notes)

\* A post has appended a second record and the file was written.
C5_Witness ==
  /\ lastOp = "appended"
  /\ file # None
  /\ Len(Val(file).notes) = 2
  /\ Val(file).count = 2

\* The changed files i < j of the cycle parse to one title and two bodies.
SameTitle(i, j) ==
  LET a == parse_md(Val(fs[changed[i]]))
      b == parse_md(Val(fs[changed[j]]))
  IN /\ a.raised = "none"
     /\ b.raised = "none"
     /\ a.title = b.title
     /\ a.body # b.body

\* C6: a build cycle that completes has persisted the index, and one that
\* aborts leaves data.json as it was when the cycle started.
C6_SyncAtomicity ==
  pc = "done" =>
    /\ raised = "none" =>
         file # None /\ Val(file).count = Len(Val(file).notes)
    /\ raised # "none" => file = fileAtEnter

\* C7: a cycle over two changed files that parse to the same title with
\* different content completes, and the index then holds one record for
\* that title, with the rendered content of the later file.
C7_LastFileWins ==
  \A i \in DOMAIN changed, j \in DOMAIN changed :
    ( pc = "done" /\ i < j /\ SameTitle(i, j)
      /\ \A k \in DOMAIN changed : k > j => ~SameTitle(j, k) )
    => /\ raised = "none"
       /\ file # None
       /\ LET d == Val(file)
              title == parse_md(Val(fs[changed[j]])).title
              hits == { k \in DOMAIN d.notes : d.notes[k].title = title }
          IN /\ Cardinality(hits) = 1
             /\ \A k \in hits :
                  d.notes[k].content =
                    markdown(parse_md(Val(fs[changed[j]])).body)

\* C8: when git reports a note file that is absent from disk, the cycle takes
\* exactly the reported paths that end in .md and are files on disk, in
\* reported order; the absent path does not abort the cycle, and every other
\* file is processed.
C8_DeletedSkipped ==
  ( /\ pc = "done"
    /\ exc # "CalledProcessError"
    /\ \E i \in DOMAIN reported :
         ends_md(reported[i]) /\ ~isfile(fs, file, reported[i]) )
  => /\ changed = SelectSeq(reported,
                            LAMBDA p : ends_md(p) /\ isfile(fs, file, p))
     /\ pending = <<>>
     /\ raised = "none"

\* C9: after inline or new has saved a note titled T, notes/<slug(T)>.md
\* holds the note's text when no such file existed or the operator answered
\* yes, and is unchanged when the file existed and the answer was not yes.
SaveContract(title, text, choice) ==
  LET filename == save_path(title)
  IN IF fs[filename] = None \/ choice = "yes"
       THEN fs' = [fs EXCEPT ![filename] = Some(text)]
       ELSE fs' = fs

C9_NoteStored ==
  [][ /\ \A t \in CliTitles, b \in BodyArgs \ {None, Some("")},
            g \in TagArgs, now \in Clock, ch \in Choices :
           Inline(Some(t), b, g, now, ch)
           => SaveContract(t, __str__(Note(t, b, g, Some(now),
                                           StartDate).note), ch)
      /\ \A t \in CliTitles, g \in TagArgs, now \in Clock, ch \in Choices :
           New(Some(t), g, now, ch)
           => SaveContract(t, new_text(t, g, now), ch)
    ]_vars

Count(q, x) == Cardinality({ i \in DOMAIN q : q[i] = x })

\* C10: in every build cycle the three git add requests come before git
\* diff, one commit request is issued and it is the last request of the
\* cycle, also when the cycle aborts with an error, and that error reaches
\* the caller once the commit request is out.
C10_CycleOrdering ==
  /\ pc \in {"entered", "iterating", "exiting", "done"} =>
       /\ SubSeq(log, 1, 3) =
            <<"git add notes/", "git add data.json", "git add images/">>
       /\ \A i \in DOMAIN log : log[i] = "git diff" => i > 3
  /\ pc \in {"iterating", "exiting", "done"} => Count(log, "git diff") = 1
  /\ pc \in {"entered", "iterating", "exiting"} =>
       Count(log, "git commit") = 0 /\ raised = "none"
  /\ pc = "done" =>
       /\ Count(log, "git commit") = 1
       /\ log[Len(log)] = "git commit"
       /\ raised = exc

\* A cycle has aborted on a changed file, the commit request went out and
\* the error reached the caller.
C10_Witness ==
  /\ pc = "done"
  /\ changed # <<>>
  /\ exc = "NameError"
  /\ raised = "NameError"
  /\ log[Len(log)] = "git commit"

====
